---- MODULE Spec2Model ----
(***************************************************************************)
(* Model of src/cide/new_project_dialog.cc (CIDE): the project-name        *)
(* heuristic NewProjectDialog::TryGuessProjectName and the scaffolding     *)
(* operations CreateNewProject / CreateProjectForExistingCMakeListsTxtFile.*)
(*                                                                         *)
(* A QString is a sequence of one-character strings (name guessing) or of  *)
(* text tokens (file generation).  Indices are 0-based as in the code;     *)
(* At(s, i) is s[i].                                                       *)
(***************************************************************************)
EXTENDS Integers, Sequences, FiniteSets, TLC

VARIABLES
  \* ---- dialog fields
  existingCMakeFilePath,  \* path of the CMakeLists.txt, <<>> = isEmpty()
  fileReadable,           \* whether file.open(ReadOnly) succeeds
  text,                   \* contents of the CMakeLists.txt file
  \* ---- TryGuessProjectName
  gpc,                    \* position in TryGuessProjectName
  cursor,                 \* local `cursor`
  guess,                  \* the returned QString
  reads,                  \* indices i of every text[i] evaluated so far
  skipped,                \* token positions examined and passed over
  usedTok,                \* token position the result was parsed from, -1 = none
  \* ---- CreateProject
  nameEdit,               \* nameEdit->text()
  folderEdit,             \* folderEdit->text(), as a path
  crlf,                   \* GetDefaultNewlineFormat() == NewlineFormat::CrLf
  denied,                 \* paths the file system refuses to create / open
  dirs,                   \* directories that exist
  files,                  \* set of [path, content]: regular files on disk
  cpc,                    \* position in CreateProject
  srcDir,                 \* local QDir srcDir
  ret,                    \* return value of CreateProject ("none" while running)
  warnings,               \* paths shown in QMessageBox::warning, in order
  failed,                 \* steps of this run whose directory / file did not come to exist
  afterFail,              \* steps of this run performed after some step had failed
  log,                    \* files written by this run, in order
  run,                    \* number of the current CreateProject call
  prev,                   \* file system, log and result of the previous call
  dirs0                   \* directories existing before the first call

gvars == <<existingCMakeFilePath, fileReadable, text, gpc, cursor, guess, reads, skipped, usedTok>>
cvars == <<nameEdit, folderEdit, crlf, denied, dirs, files, cpc, srcDir, ret,
           warnings, failed, afterFail, log, run, prev, dirs0>>
vars == <<gvars, cvars>>

\* ------------------------------------------------------------- bounds
\* Longest run of blanks generated between the parts of a project(...) unit.
MaxPad == 1

\* ------------------------------------------------------------- QChar / QString
\* strlen("project"), line 247
TokenLen == 7

Token == <<"p", "r", "o", "j", "e", "c", "t">>

\* QChar::isSpace
IsSpace(c) == c \in {" ", "\t", "\n"}

\* Case folding used by Qt::CaseInsensitive comparison.
Fold(c) ==
  CASE c = "P" -> "p" [] c = "R" -> "r" [] c = "O" -> "o" [] c = "J" -> "j"
    [] c = "E" -> "e" [] c = "C" -> "c" [] c = "T" -> "t"
    [] c = "B" -> "b" [] c = "D" -> "d" [] c = "X" -> "x"
    [] OTHER -> c

At(s, i) == s[i + 1]

MinOf(S) == CHOOSE m \in S : \A n \in S : m <= n

\* A search that compares characters exactly (Qt::CaseInsensitive left out).
MatchAtCaseSensitive(s, pat, i) ==
  /\ i >= 0
  /\ i + Len(pat) <= Len(s)
  /\ \A k \in 1..Len(pat) : s[i + k] = pat[k]

\* Whether pat occurs in s at 0-based index i under Qt::CaseInsensitive.
MatchAt(s, pat, i) ==
  /\ i >= 0
  /\ i + Len(pat) <= Len(s)
  /\ \A k \in 1..Len(pat) : Fold(s[i + k]) = Fold(pat[k])

\* QString::indexOf(pat, from, Qt::CaseInsensitive): first index >= from, or -1.
IndexOf(s, pat, from) ==
  LET hits == {i \in from..(Len(s) - Len(pat)) : MatchAt(s, pat, i)}
  IN IF hits = {} THEN -1 ELSE MinOf(hits)

\* QString::lastIndexOf(QChar) in place of indexOf: the last index holding c.
LastIndexOfChar(s, c, from) ==
  LET hits == {i \in from..(Len(s) - 1) : At(s, i) = c}
  IN IF hits = {} THEN -1 ELSE CHOOSE m \in hits : \A n \in hits : n <= m

\* QString::indexOf(QChar, from): first index >= from holding c, or -1.
IndexOfChar(s, c, from) ==
  LET hits == {i \in from..(Len(s) - 1) : At(s, i) = c}
  IN IF hits = {} THEN -1 ELSE MinOf(hits)

\* QString::mid(pos, n): n characters from pos; everything from pos when n < 0
\* or when fewer than n characters remain.
Mid(s, pos, n) ==
  IF pos > Len(s) THEN <<>>
  ELSE IF n < 0 \/ pos + n > Len(s) THEN SubSeq(s, pos + 1, Len(s))
  ELSE SubSeq(s, pos + 1, pos + n)

\* QString::trimmed(): strip white space from both ends.
Trimmed(s) ==
  LET keep == {i \in 1..Len(s) : ~IsSpace(s[i])}
  IN IF keep = {} THEN <<>>
     ELSE SubSeq(s, MinOf(keep), CHOOSE m \in keep : \A n \in keep : n <= m)


\* ------------------------------------------------------------- paths
\* A path is a sequence of components, the first being the file-system root
\* (<<>> for "/", a drive such as <<"D:">> otherwise); a component is a QString.
Root == <<>>

\* QFileInfo(p).dir(): the path without its last component.
DirOf(p) == SubSeq(p, 1, Len(p) - 1)

\* QDir::dirName(): the last component, empty for a root directory.
DirName(d) == IF Len(d) > 1 THEN d[Len(d)] ELSE <<>>

\* QDir::filePath(name)
FilePath(d, name) == Append(d, name)

\* ------------------------------------------------------------- TryGuessProjectName
\* What text[i] yields for i = text.size(): QChar() under Qt 5's QCharRef, and
\* with a plain reference whatever follows the buffer; the code only compares
\* the value with '(' , so one value of each kind stands for the rest.
NUL == "NUL"
OutOfRangeChars == {NUL, "(", "x"}

CharRead(s, i) == IF i < Len(s) THEN {At(s, i)} ELSE OutOfRangeChars

\* Lines 249-252: advance over white space, never beyond text.size().
SkipSpaces(s, from) ==
  MinOf({j \in from..Len(s) : j = Len(s) \/ ~IsSpace(At(s, j))})

\* Lines 257-271: the loop over `arguments`.
RECURSIVE ParseLoop(_, _, _, _)
ParseLoop(arguments, i, haveString, projectName) ==
  IF i >= Len(arguments) THEN projectName
  ELSE LET c == At(arguments, i) IN
       IF i = 0 /\ c = "\"" THEN ParseLoop(arguments, i + 1, TRUE, projectName)
       ELSE IF haveString /\ c = "\"" THEN projectName
       ELSE IF IsSpace(c) THEN projectName
       ELSE ParseLoop(arguments, i + 1, haveString, Append(projectName, c))

ParseName(arguments) == ParseLoop(arguments, 0, FALSE, <<>>)

\* Line 255, with the test dropped.
RightBracketFoundAlways(rightBracketPos) == TRUE

\* Line 255: if (rightBracketPos >= 0)
RightBracketFound(rightBracketPos) == rightBracketPos >= 0

\* Lines 233-235: no CMakeLists.txt was given.
GuessNoCMakeFile ==
  /\ gpc = "start"
  /\ existingCMakeFilePath = <<>>
  /\ guess' = <<>>
  /\ gpc' = "done"
  /\ UNCHANGED <<existingCMakeFilePath, fileReadable, text, cursor, reads, skipped, usedTok>>
  /\ UNCHANGED cvars

\* Lines 238-241: open and read the file; a file that does not open skips the scan.
GuessOpenFile ==
  /\ gpc = "start"
  /\ existingCMakeFilePath # <<>>
  /\ cursor' = 0
  /\ gpc' = IF fileReadable THEN "search" ELSE "fallback"
  /\ UNCHANGED <<existingCMakeFilePath, fileReadable, text, guess, reads, skipped, usedTok>>
  /\ UNCHANGED cvars

\* Lines 243-247: find the next "project".
GuessFindToken ==
  /\ gpc = "search"
  /\ LET found == IndexOf(text, Token, cursor) IN
       IF found < 0
       THEN /\ cursor' = found
            /\ gpc' = "fallback"
       ELSE /\ cursor' = found + TokenLen
            /\ gpc' = "bracket"
  /\ UNCHANGED <<existingCMakeFilePath, fileReadable, text, guess, reads, skipped, usedTok>>
  /\ UNCHANGED cvars

\* Lines 249-273: look for '(' and ')' after the token and parse the arguments.
GuessCheckBracket ==
  /\ gpc = "bracket"
  /\ LET leftBracketPos == SkipSpaces(text, cursor) IN
     \E c \in CharRead(text, leftBracketPos) :
       LET rightBracketPos == IndexOfChar(text, ")", leftBracketPos + 1)
           arguments == Trimmed(Mid(text, leftBracketPos + 1,
                                    rightBracketPos - leftBracketPos - 1))
       IN /\ reads' = reads \cup (cursor..leftBracketPos)
          /\ IF c = "(" /\ RightBracketFound(rightBracketPos)
             THEN /\ guess' = ParseName(arguments)
                  /\ usedTok' = cursor - TokenLen
                  /\ gpc' = "done"
                  /\ UNCHANGED skipped
             ELSE /\ skipped' = skipped \cup {cursor - TokenLen}
                  /\ gpc' = "search"
                  /\ UNCHANGED <<guess, usedTok>>
  /\ UNCHANGED <<existingCMakeFilePath, fileReadable, text, cursor>>
  /\ UNCHANGED cvars

\* Line 278: fall back to the name of the folder holding the file.
GuessFallback ==
  /\ gpc = "fallback"
  /\ guess' = DirName(DirOf(existingCMakeFilePath))
  /\ gpc' = "done"
  /\ UNCHANGED <<existingCMakeFilePath, fileReadable, text, cursor, reads, skipped, usedTok>>
  /\ UNCHANGED cvars


\* ------------------------------------------------------------- inputs of the scan
CMakeListsTxt == <<"CMakeLists.txt">>

\* Where the CMakeLists.txt may lie: nowhere (new project), in /ws, in /.
GuessPaths == { <<>>, <<Root, <<"w", "s">>, CMakeListsTxt>>, <<Root, CMakeListsTxt>> }

RECURSIVE Pad(_)
Pad(n) == IF n = 0 THEN <<>> ELSE <<" ">> \o Pad(n - 1)

Pads == {Pad(n) : n \in 0..MaxPad}

\* Spellings of the token.
Tokens == { Token, <<"P", "r", "O", "j", "E", "c", "T">> }

\* What follows the token: blanks, a line break, or a character that is no '('.
Gaps == Pads \cup { <<"\n">>, <<"x">> }

\* Argument texts: nothing, plain names, a name with a version argument,
\* quoted names with and without inner blank, empty and unclosed quotes.
Cores == { <<>>, <<"B">>, <<"B", "c">>, <<"B", " ", "c">>,
           <<"\"", "B", "c", "\"">>, <<"\"", "B", " ", "c", "\"">>,
           <<"\"", "\"">>, <<"\"", "B">> }

\* One project(...) unit, each part of it present or not.
Units == { tok \o gap \o open \o lead \o core \o trail \o close :
             tok \in Tokens, gap \in Gaps, open \in {<<"(">>, <<>>},
             lead \in Pads, core \in Cores, trail \in Pads,
             close \in {<<")">>, <<>>} }

\* Text before the unit.
Befores == { <<>>, <<"x">>, <<"x", " ">> }

\* Text after the unit: nothing, a later declaration, a later bare token with
\* and without trailing white space, a later unclosed declaration.
Afters == { <<>>,
            <<"x">> \o Token \o <<"(", "D", ")">>,
            Token,
            Token \o <<" ", "\n">>,
            <<"x">> \o Token \o <<" ", "(", "D">> }

Texts == { b \o u \o a : b \in Befores, u \in Units \cup {<<>>}, a \in Afters }

\* The CreateProject part at rest (the scan is studied on its own).
CreateIdle ==
  /\ nameEdit = <<>>
  /\ folderEdit = <<>>
  /\ crlf = FALSE
  /\ denied = {}
  /\ dirs = {}
  /\ files = {}
  /\ cpc = "idle"
  /\ srcDir = <<>>
  /\ ret = "none"
  /\ warnings = <<>>
  /\ failed = {}
  /\ afterFail = {}
  /\ log = <<>>
  /\ run = 0
  /\ prev = [dirs |-> {}, files |-> {}, log |-> <<>>, ret |-> "none", failed |-> {}]
  /\ dirs0 = {}

\* The constructor is about to call TryGuessProjectName (line 27).
InitGuess ==
  /\ existingCMakeFilePath \in GuessPaths
  /\ fileReadable \in BOOLEAN
  /\ text \in Texts
  /\ existingCMakeFilePath = <<>> => (~fileReadable /\ text = <<>>)
  /\ ~fileReadable => text = <<>>
  /\ gpc = "start"
  /\ cursor = 0
  /\ guess = <<>>
  /\ reads = {}
  /\ skipped = {}
  /\ usedTok = -1
  /\ CreateIdle

NextGuess ==
  \/ GuessNoCMakeFile
  \/ GuessOpenFile
  \/ GuessFindToken
  \/ GuessCheckBracket
  \/ GuessFallback

SpecGuess == InitGuess /\ [][NextGuess]_vars


\* ------------------------------------------------------------- generated text
\* A generated text is a sequence of tokens: literal pieces of the templates,
\* the place markers %1 %2 %3, line ends, and the pieces of the project name.

\* Number of a place marker, 0 for any other token.
MarkerNo(tok) == CASE tok = "%1" -> 1 [] tok = "%2" -> 2 [] tok = "%3" -> 3 [] OTHER -> 0

\* QString::replace(before, after) for a one-token `before`.
RECURSIVE Replace(_, _, _)
Replace(s, before, after) ==
  IF s = <<>> THEN <<>>
  ELSE (IF Head(s) = before THEN after ELSE <<Head(s)>>) \o Replace(Tail(s), before, after)

\* QString::arg(a): every occurrence of the lowest-numbered place marker that
\* the string holds at the time of the call is replaced by a.
Arg(s, a) ==
  LET used == {MarkerNo(s[k]) : k \in 1..Len(s)} \ {0}
  IN IF used = {} THEN s
     ELSE Replace(s, CHOOSE t \in {"%1", "%2", "%3"} : MarkerNo(t) = MinOf(used), a)

\* Lines 134-136, 165-167, 189-191, 223-225: the newline format.
ToNewlineFormat(s) == IF crlf THEN Replace(s, "\n", <<"\r", "\n">>) ELSE s

\* Lines 127-133.
NewProjectFileText(projectName, binaryName) ==
  Arg(Arg(<<"name: ", "%1", "\n",
            "projectCMakeDir: build", "\n",
            "buildDir: build", "\n",
            "buildTarget: ", "%2", "\n",
            "runDir: build", "\n",
            "runCmd: ./", "%2", "\n">>, projectName), binaryName)

\* Lines 147-164.
CMakeListsFileText(projectName, binaryName, srcSubfolderName) ==
  Arg(Arg(Arg(<<"cmake_minimum_required(VERSION 3.0)", "\n",
                "\n",
                "project(", "%1", ")", "\n",
                "\n",
                "# To set a C++ standard:", "\n",
                "# set(CMAKE_CXX_STANDARD 11)", "\n",
                "\n",
                "add_executable(", "%2", "\n",
                "  src/", "%3", "/main.cc", "\n",
                ")", "\n",
                "target_compile_options(", "%2", " PUBLIC", "\n",
                "  \"$<$<COMPILE_LANGUAGE:CXX>:-Wall>\"", "\n",
                "  \";$<$<COMPILE_LANGUAGE:CXX>:-Wextra>\"", "\n",
                "  \";$<$<COMPILE_LANGUAGE:CXX>:-O2>\"", "\n",
                "  \";$<$<COMPILE_LANGUAGE:CXX>:-msse2>\"", "\n",
                "  \";$<$<COMPILE_LANGUAGE:CXX>:-msse3>\"", "\n",
                ")", "\n">>, projectName), binaryName), srcSubfolderName)

\* Lines 185-188.
MainFileText == <<"int main(int argc, char** argv) {", "\n", "  ", "\n", "}", "\n">>

\* Lines 217-222.
ExistingProjectFileText(projectName, binaryName, relativeBuildDir) ==
  Arg(Arg(Arg(<<"name: ", "%1", "\n",
                "projectCMakeDir: ", "%3", "\n",
                "buildDir: ", "%3", "\n",
                "runDir: ", "%3", "\n",
                "runCmd: ./", "%2", "\n">>, projectName), binaryName), relativeBuildDir)

\* ------------------------------------------------------------- QDir / QFile
\* The text of a path: its components joined by "/".
RECURSIVE PathText(_)
PathText(p) ==
  IF p = <<>> THEN <<>>
  ELSE IF Len(p) = 1 THEN p[1]
  ELSE p[1] \o <<"/">> \o PathText(Tail(p))

\* The directories on the way to d, d included.
Prefixes(d) == {SubSeq(d, 1, k) : k \in 1..Len(d)}

FilePaths == {f.path : f \in files}

\* Whether directory p can be brought into existence now.
Creatable(ds, p) == p \notin ds /\ p \notin denied /\ p \notin FilePaths

\* A relative path computed without regard to the roots of the two paths.
RelativeFilePathSameRoot(dir, target) ==
  LET common == {k \in 0..Len(dir) : k <= Len(target) /\ \A j \in 1..k : dir[j] = target[j]}
      k == CHOOSE m \in common : \A n \in common : n <= m
      k1 == IF k = 0 THEN 1 ELSE k
      rel == [j \in 1..(Len(dir) - k1) |-> <<"..">>] \o SubSeq(target, k1 + 1, Len(target))
  IN IF rel = <<>> THEN << <<".">> >> ELSE rel

\* QDir::relativeFilePath(target): the path from dir to target, climbing with
\* ".." ; "." for dir itself; target unchanged when it is on another root.
RelativeFilePath(dir, target) ==
  IF dir[1] # target[1] THEN target
  ELSE LET common == {k \in 1..Len(dir) : k <= Len(target) /\ \A j \in 1..k : dir[j] = target[j]}
           k == CHOOSE m \in common : \A n \in common : n <= m
           rel == [j \in 1..(Len(dir) - k) |-> <<"..">>] \o SubSeq(target, k + 1, Len(target))
       IN IF rel = <<>> THEN << <<".">> >> ELSE rel

\* A mkpath that, like mkdir, reports failure for a directory that exists.
MkpathOkFailIfExists(ds, d) ==
  /\ d \notin ds
  /\ \A p \in Prefixes(d) : p \in ds \/ Creatable(ds, p)

\* QDir::mkpath: true when d exists afterwards.
MkpathOk(ds, d) == \A p \in Prefixes(d) : p \in ds \/ Creatable(ds, p)

\* The directories after mkpath: parents are made from the top down until one
\* cannot be made.
MkpathDirs(ds, d) ==
  ds \cup {p \in Prefixes(d) : \A q \in Prefixes(p) : q \in ds \/ Creatable(ds, q)}

\* QDir::mkdir: one level only; false when the parent is missing, when the
\* directory exists already or when it cannot be made.
MkdirOk(ds, p) == DirOf(p) \in ds /\ Creatable(ds, p)

MkdirDirs(ds, p) == IF MkdirOk(ds, p) THEN ds \cup {p} ELSE ds

\* QFile::open(WriteOnly | Truncate)
OpenOk(p) == DirOf(p) \in dirs /\ p \notin denied /\ p \notin dirs

\* open + write + close: the file holds exactly `content` afterwards.
WriteFile(fs, p, content) ==
  {f \in fs : f.path # p} \cup {[path |-> p, content |-> content]}

\* ------------------------------------------------------------- CreateProject
\* Largest number of CreateProject calls in a row on the same dialog.
MaxRuns == 2

gscan == <<existingCMakeFilePath, fileReadable, text, gpc, cursor, guess, reads, skipped, usedTok>>
cinputs == <<nameEdit, folderEdit, crlf, denied, dirs0>>

\* Bookkeeping of a file-system step: it failed when what it was to create is
\* not there afterwards; it came late when an earlier step had failed.
Track(step, ok) ==
  /\ failed' = IF ok THEN failed ELSE failed \cup {step}
  /\ afterFail' = IF failed # {} THEN afterFail \cup {step} ELSE afterFail

\* QMessageBox::warning(... .arg(path)); return false;
ReturnFalse(path) ==
  /\ warnings' = Append(warnings, path)
  /\ ret' = FALSE
  /\ cpc' = "done"

\* Lines 79-85: CreateProject dispatches on the mode.
CallCreateProject ==
  /\ cpc \in {"ready", "done"}
  /\ run < MaxRuns
  /\ run' = run + 1
  /\ prev' = [dirs |-> dirs, files |-> files, log |-> log, ret |-> ret, failed |-> failed]
  /\ failed' = {}
  /\ afterFail' = {}
  /\ log' = <<>>
  /\ warnings' = <<>>
  /\ ret' = "none"
  /\ srcDir' = <<>>
  /\ cpc' = IF existingCMakeFilePath = <<>> THEN "mkProject" ELSE "aMkBuild"
  /\ UNCHANGED <<dirs, files>>
  /\ UNCHANGED <<gscan, cinputs>>

\* Lines 110-114: dir.mkpath(".")
NewMkProjectDir ==
  /\ cpc = "mkProject"
  /\ dirs' = MkpathDirs(dirs, folderEdit)
  /\ Track("projectDir", folderEdit \in dirs')
  /\ IF MkpathOk(dirs, folderEdit)
     THEN cpc' = "projectFile" /\ UNCHANGED <<warnings, ret>>
     ELSE ReturnFalse(folderEdit)
  /\ UNCHANGED <<files, srcDir, log, run, prev>>
  /\ UNCHANGED <<gscan, cinputs>>

\* Lines 116-138: <project_name>.cide
NewWriteProjectFile ==
  /\ cpc = "projectFile"
  /\ LET projectName == nameEdit
         binaryName == projectName
         path == FilePath(folderEdit, projectName \o <<".cide">>)
         projectFileText == ToNewlineFormat(NewProjectFileText(projectName, binaryName))
     IN /\ Track("projectFile", OpenOk(path))
        /\ IF OpenOk(path)
           THEN /\ files' = WriteFile(files, path, projectFileText)
                /\ log' = Append(log, [path |-> path, content |-> projectFileText])
                /\ cpc' = "cmakeLists"
                /\ UNCHANGED <<warnings, ret>>
           ELSE /\ ReturnFalse(path)
                /\ UNCHANGED <<files, log>>
  /\ UNCHANGED <<dirs, srcDir, run, prev>>
  /\ UNCHANGED <<gscan, cinputs>>

\* Lines 140-169: CMakeLists.txt
NewWriteCMakeLists ==
  /\ cpc = "cmakeLists"
  /\ LET projectName == nameEdit
         binaryName == projectName
         srcSubfolderName == projectName
         cmakeListsPath == FilePath(folderEdit, <<"CMakeLists.txt">>)
         cmakeListsFileText ==
           ToNewlineFormat(CMakeListsFileText(projectName, binaryName, srcSubfolderName))
     IN /\ Track("cmakeLists", OpenOk(cmakeListsPath))
        /\ IF OpenOk(cmakeListsPath)
           THEN /\ files' = WriteFile(files, cmakeListsPath, cmakeListsFileText)
                /\ log' = Append(log, [path |-> cmakeListsPath, content |-> cmakeListsFileText])
                /\ cpc' = "mkdirSrc"
                /\ UNCHANGED <<warnings, ret>>
           ELSE /\ ReturnFalse(cmakeListsPath)
                /\ UNCHANGED <<files, log>>
  /\ UNCHANGED <<dirs, srcDir, run, prev>>
  /\ UNCHANGED <<gscan, cinputs>>

\* Lines 172-173: QDir srcDir = dir; srcDir.mkdir("src");  (result not looked at)
NewMkdirSrc ==
  /\ cpc = "mkdirSrc"
  /\ srcDir' = folderEdit
  /\ dirs' = MkdirDirs(dirs, FilePath(folderEdit, <<"src">>))
  /\ Track("src", FilePath(folderEdit, <<"src">>) \in dirs')
  /\ cpc' = "cdSrc"
  /\ UNCHANGED <<files, ret, warnings, log, run, prev>>
  /\ UNCHANGED <<gscan, cinputs>>

\* Line 174: srcDir.cd("src");  srcDir stays where it is when that fails.
NewCdSrc ==
  /\ cpc = "cdSrc"
  /\ srcDir' = IF FilePath(srcDir, <<"src">>) \in dirs
               THEN FilePath(srcDir, <<"src">>) ELSE srcDir
  /\ cpc' = "mkdirSub"
  /\ UNCHANGED <<dirs, files, ret, warnings, failed, afterFail, log, run, prev>>
  /\ UNCHANGED <<gscan, cinputs>>

\* Line 175: srcDir.mkdir(srcSubfolderName);  (result not looked at)
NewMkdirSub ==
  /\ cpc = "mkdirSub"
  /\ LET srcSubfolderName == nameEdit IN
       /\ dirs' = MkdirDirs(dirs, FilePath(srcDir, srcSubfolderName))
       /\ Track("srcSub",
                FilePath(FilePath(folderEdit, <<"src">>), srcSubfolderName) \in dirs')
  /\ cpc' = "cdSub"
  /\ UNCHANGED <<files, srcDir, ret, warnings, log, run, prev>>
  /\ UNCHANGED <<gscan, cinputs>>

\* Line 176: srcDir.cd(srcSubfolderName);
NewCdSub ==
  /\ cpc = "cdSub"
  /\ srcDir' = IF FilePath(srcDir, nameEdit) \in dirs
               THEN FilePath(srcDir, nameEdit) ELSE srcDir
  /\ cpc' = "mainFile"
  /\ UNCHANGED <<dirs, files, ret, warnings, failed, afterFail, log, run, prev>>
  /\ UNCHANGED <<gscan, cinputs>>

\* Lines 178-193: main.cc, in whatever directory srcDir now names.
NewWriteMain ==
  /\ cpc = "mainFile"
  /\ LET mainPath == FilePath(srcDir, <<"main.cc">>)
         mainFileText == ToNewlineFormat(MainFileText)
     IN /\ Track("mainFile", OpenOk(mainPath))
        /\ IF OpenOk(mainPath)
           THEN /\ files' = WriteFile(files, mainPath, mainFileText)
                /\ log' = Append(log, [path |-> mainPath, content |-> mainFileText])
                /\ cpc' = "mkBuild"
                /\ UNCHANGED <<warnings, ret>>
           ELSE /\ ReturnFalse(mainPath)
                /\ UNCHANGED <<files, log>>
  /\ UNCHANGED <<dirs, srcDir, run, prev>>
  /\ UNCHANGED <<gscan, cinputs>>

\* Lines 195-198: dir.mkdir("build"); return true;  (result not looked at)
NewMkBuildDir ==
  /\ cpc = "mkBuild"
  /\ dirs' = MkdirDirs(dirs, FilePath(folderEdit, <<"build">>))
  /\ Track("build", FilePath(folderEdit, <<"build">>) \in dirs')
  /\ ret' = TRUE
  /\ cpc' = "done"
  /\ UNCHANGED <<files, srcDir, warnings, log, run, prev>>
  /\ UNCHANGED <<gscan, cinputs>>

\* Lines 202-209: buildDir.mkpath(".");  (result not looked at)
AttachMkBuildDir ==
  /\ cpc = "aMkBuild"
  /\ dirs' = MkpathDirs(dirs, folderEdit)
  /\ Track("attachBuild", folderEdit \in dirs')
  /\ cpc' = "aProjectFile"
  /\ UNCHANGED <<files, srcDir, ret, warnings, log, run, prev>>
  /\ UNCHANGED <<gscan, cinputs>>

\* Lines 211-229: <project_name>.cide next to the CMakeLists.txt; return true;
AttachWriteProjectFile ==
  /\ cpc = "aProjectFile"
  /\ LET projectName == nameEdit
         binaryName == projectName
         cmakeFileDir == DirOf(existingCMakeFilePath)
         buildDirPath == folderEdit
         path == FilePath(cmakeFileDir, projectName \o <<".cide">>)
         projectFileText ==
           ToNewlineFormat(ExistingProjectFileText(projectName, binaryName,
                             PathText(RelativeFilePath(cmakeFileDir, buildDirPath))))
     IN /\ Track("projectFile", OpenOk(path))
        /\ IF OpenOk(path)
           THEN /\ files' = WriteFile(files, path, projectFileText)
                /\ log' = Append(log, [path |-> path, content |-> projectFileText])
                /\ ret' = TRUE
                /\ cpc' = "done"
                /\ UNCHANGED warnings
           ELSE /\ ReturnFalse(path)
                /\ UNCHANGED <<files, log>>
  /\ UNCHANGED <<dirs, srcDir, run, prev>>
  /\ UNCHANGED <<gscan, cinputs>>

\* ------------------------------------------------------------- inputs of CreateProject
\* Project names: an ordinary one, and two that are legal file names and
\* spell a place marker.
Names == { <<"Demo">>, <<"%1">>, <<"%2">> }

\* New project: the project folder /tmp/x.
TmpDir == <<Root, <<"tmp">>>>
ProjectDir == <<Root, <<"tmp">>, <<"x">>>>

\* What may exist before the first call: only /, /tmp, or the folder itself.
NewStartDirs == { {<<Root>>}, {<<Root>>, TmpDir}, {<<Root>>, TmpDir, ProjectDir} }

\* The paths CreateNewProject is meant to create; any of them may be blocked
\* (a file or an unwritable entry of that name is in the way).
NewTargets(n) ==
  { ProjectDir,
    FilePath(ProjectDir, <<"src">>),
    FilePath(FilePath(ProjectDir, <<"src">>), n),
    FilePath(ProjectDir, <<"build">>),
    FilePath(ProjectDir, n \o <<".cide">>),
    FilePath(ProjectDir, <<"CMakeLists.txt">>),
    FilePath(FilePath(FilePath(ProjectDir, <<"src">>), n), <<"main.cc">>) }

\* Attach: the CMakeLists.txt lies in C:/proj; the build folder is nested,
\* one level up, the folder itself, or on another drive.
DriveC == <<"C:">>
DriveD == <<"D:">>
AttachCMakeFile == <<DriveC, <<"proj">>, <<"CMakeLists.txt">>>>
AttachBuildDirs ==
  { <<DriveC, <<"proj">>, <<"build">>>>,
    <<DriveC, <<"build">>>>,
    <<DriveC, <<"proj">>>>,
    <<DriveD, <<"out">>>> }
AttachStartDirs == { <<DriveC>>, <<DriveD>>, <<DriveC, <<"proj">>>> }

ScanIdle ==
  /\ fileReadable = FALSE
  /\ text = <<>>
  /\ gpc = "idle"
  /\ cursor = 0
  /\ guess = <<>>
  /\ reads = {}
  /\ skipped = {}
  /\ usedTok = -1

\* The dialog was accepted with a non-empty name (lines 99-106); CreateProject
\* has not been called yet.
InitCreate ==
  /\ nameEdit \in Names
  /\ crlf \in BOOLEAN
  /\ \/ /\ existingCMakeFilePath = <<>>
        /\ folderEdit = ProjectDir
        /\ dirs \in NewStartDirs
        /\ denied \in SUBSET NewTargets(nameEdit)
     \/ /\ existingCMakeFilePath = AttachCMakeFile
        /\ folderEdit \in AttachBuildDirs
        /\ dirs = AttachStartDirs
        /\ denied \in SUBSET ( {folderEdit, FilePath(DirOf(AttachCMakeFile), nameEdit \o <<".cide">>)}
                               \ AttachStartDirs )
  /\ dirs0 = dirs
  /\ files = {}
  /\ cpc = "ready"
  /\ srcDir = <<>>
  /\ ret = "none"
  /\ warnings = <<>>
  /\ failed = {}
  /\ afterFail = {}
  /\ log = <<>>
  /\ run = 0
  /\ prev = [dirs |-> {}, files |-> {}, log |-> <<>>, ret |-> "none", failed |-> {}]
  /\ ScanIdle

NextCreate ==
  \/ CallCreateProject
  \/ NewMkProjectDir
  \/ NewWriteProjectFile
  \/ NewWriteCMakeLists
  \/ NewMkdirSrc
  \/ NewCdSrc
  \/ NewMkdirSub
  \/ NewCdSub
  \/ NewWriteMain
  \/ NewMkBuildDir
  \/ AttachMkBuildDir
  \/ AttachWriteProjectFile

SpecCreate == InitCreate /\ [][NextCreate]_vars

\* ------------------------------------------------------------- properties of the scan
\* The vocabulary of the specification, stated on the text itself.

\* The scan ran on a file that was given and could be read, and has returned.
Scanned == existingCMakeFilePath # <<>> /\ fileReadable /\ gpc = "done"

\* "project" in any letter case stands at index i.
TokenAt(i) ==
  /\ i + 7 <= Len(text)
  /\ \A k \in 1..7 : Fold(text[i + k]) = Token[k]

TokenPositions == {i \in 0..(Len(text) - 7) : TokenAt(i)}

\* Index of the first character after the token at i that is no white space
\* (Len(text) when there is none).
NextNonSpace(i) ==
  CHOOSE j \in (i + 7)..Len(text) :
    /\ j = Len(text) \/ text[j + 1] \notin {" ", "\t", "\n"}
    /\ \A k \in (i + 7)..(j - 1) : text[k + 1] \in {" ", "\t", "\n"}

\* The token at i is a candidate: the next non-blank character is '('.
OpensAt(i) == NextNonSpace(i) < Len(text) /\ text[NextNonSpace(i) + 1] = "("

\* The token at i starts a syntactically valid construct: '(' and a later ')'.
ClosedAt(i) ==
  /\ OpensAt(i)
  /\ \E j \in (NextNonSpace(i) + 1)..(Len(text) - 1) : text[j + 1] = ")"

\* Index of the ')' that ends the construct at i.
CloseOf(i) ==
  CHOOSE j \in (NextNonSpace(i) + 1)..(Len(text) - 1) :
    /\ text[j + 1] = ")"
    /\ \A k \in (NextNonSpace(i) + 1)..(j - 1) : text[k + 1] # ")"

\* The characters between the parentheses of the construct at i, blanks at
\* both ends removed.
RECURSIVE Strip(_)
Strip(s) ==
  IF s = <<>> THEN s
  ELSE IF Head(s) \in {" ", "\t", "\n"} THEN Strip(Tail(s))
  ELSE IF s[Len(s)] \in {" ", "\t", "\n"} THEN Strip(SubSeq(s, 1, Len(s) - 1))
  ELSE s

ArgsOf(i) == Strip(SubSeq(text, NextNonSpace(i) + 2, CloseOf(i)))

ValidPositions == {i \in TokenPositions : ClosedAt(i)}

\* The name of the folder holding the CMakeLists.txt.
FolderName ==
  IF Len(existingCMakeFilePath) >= 3
  THEN existingCMakeFilePath[Len(existingCMakeFilePath) - 1]
  ELSE <<>>

\* Well-formed declarations project(Foo) and project("Foo Bar") with blanks
\* inside the parentheses: [str |-> the declaration, name |-> its name].
Declarations ==
  { [str |-> tok \o <<"(">> \o l \o n \o t \o <<")">>, name |-> n] :
      tok \in Tokens, l \in Pads, t \in Pads, n \in {<<"B">>, <<"B", "c">>} }
  \cup
  { [str |-> tok \o <<"(">> \o l \o <<"\"">> \o n \o <<"\"">> \o t \o <<")">>, name |-> n] :
      tok \in Tokens, l \in Pads, t \in Pads,
      n \in {<<"B", "c">>, <<"B", " ", "c">>} }

\* C1: when the first project(...) construct of the text is a well-formed
\* declaration project(Foo) or project("Foo Bar"), the scan returns exactly
\* Foo, respectively the whole quoted content Foo Bar.
C1_WellFormedNameExtracted ==
  Scanned =>
    \A d \in Declarations :
      ( /\ TokenPositions # {}
        /\ LET i == MinOf(TokenPositions) IN
             /\ i + Len(d.str) <= Len(text)
             /\ SubSeq(text, i + 1, i + Len(d.str)) = d.str )
      => guess = d.name

\* C2: when the file was given and no token of the text starts a usable
\* construct (no '(' after it, or no ')' after the '('), the scan returns the
\* name of the folder holding the file and takes nothing from the text.
C2_FallbackWhenNoUsableConstruct ==
  (Scanned /\ ValidPositions = {}) => (guess = FolderName /\ usedTok = -1)

\* A text with an unclosed project( has been scanned and the folder name came back.
C2_Witness ==
  /\ Scanned
  /\ ValidPositions = {}
  /\ \E i \in TokenPositions : OpensAt(i) /\ NextNonSpace(i) + 1 < Len(text)
  /\ guess = <<"w", "s">>

\* C7: a token is a candidate exactly when its next non-blank character is
\* '(' , whatever precedes it; every token passed over is one that is no
\* complete construct, every token left of the one used was passed over, the
\* leftmost complete construct is the one used, and a plain project(B) yields B.
C7_TokenPolicy ==
  Scanned =>
    /\ \A i \in skipped : i \in TokenPositions /\ ~ClosedAt(i)
    /\ \A i \in TokenPositions :
         (~OpensAt(i) /\ (usedTok = -1 \/ i < usedTok)) => i \in skipped
    /\ usedTok # -1 => (usedTok \in TokenPositions /\ OpensAt(usedTok))
    /\ \A i \in ValidPositions : usedTok # -1 /\ usedTok <= i
    /\ \A n \in {<<"B">>, <<"D">>, <<"B", "c">>} :
         (usedTok # -1 /\ ClosedAt(usedTok) /\ ArgsOf(usedTok) = n) => guess = n

\* A token without '(' was passed over and the later xproject(D), which has no
\* word boundary before it, gave the name D.
C7_Witness ==
  /\ Scanned
  /\ \E i \in skipped : ~OpensAt(i) /\ i < usedTok
  /\ usedTok > 0
  /\ text[usedTok] = "x"
  /\ guess = <<"D">>

\* The leftmost construct yields an empty name: nothing between the
\* parentheses, or a quote followed at once by a quote or a blank.
YieldsEmpty(args) ==
  \/ args = <<>>
  \/ /\ args[1] = "\""
     /\ Len(args) = 1 \/ args[2] \in {"\"", " ", "\t", "\n"}

\* C8: the result is decided by the leftmost syntactically valid construct
\* alone: it is taken from between its parentheses, and when that construct
\* yields an empty name the result is the empty string, whatever follows.
C8_LeftmostConstructDecides ==
  (Scanned /\ ValidPositions # {}) =>
    LET i == MinOf(ValidPositions)
        args == ArgsOf(i)
    IN /\ usedTok = i
       /\ \E a \in 1..(Len(args) + 1), b \in 0..Len(args) : guess = SubSeq(args, a, b)
       /\ YieldsEmpty(args) => guess = <<>>

\* project() came first, a later xproject(D) exists, the folder has a name,
\* and the result is the empty string.
C8_Witness ==
  /\ Scanned
  /\ ValidPositions # {}
  /\ ArgsOf(MinOf(ValidPositions)) = <<>>
  /\ \E j \in ValidPositions : j > MinOf(ValidPositions) /\ ArgsOf(j) = <<"D">>
  /\ FolderName = <<"w", "s">>
  /\ guess = <<>>

\* C10: every text[i] the scan evaluates has i < text.size().
C10_ReadsInRange == \A i \in reads : i < Len(text)

\* ------------------------------------------------------------- properties of CreateProject
NewMode == existingCMakeFilePath = <<>>

\* The call in progress has returned.
Returned == cpc = "done"

SrcPath == FilePath(folderEdit, <<"src">>)
SrcSubPath == FilePath(SrcPath, nameEdit)
BuildPath == FilePath(folderEdit, <<"build">>)
DescriptorPath == FilePath(folderEdit, nameEdit \o <<".cide">>)
CMakeListsPath == FilePath(folderEdit, <<"CMakeLists.txt">>)
MainPath == FilePath(SrcSubPath, <<"main.cc">>)

\* The line end of the chosen newline format.
Eol == IF crlf THEN <<"\r", "\n">> ELSE <<"\n">>

\* The descriptor of a new project named n, line by line.
ExpectedDescriptor(n) ==
  <<"name: ">> \o n \o Eol \o
  <<"projectCMakeDir: build">> \o Eol \o
  <<"buildDir: build">> \o Eol \o
  <<"buildTarget: ">> \o n \o Eol \o
  <<"runDir: build">> \o Eol \o
  <<"runCmd: ./">> \o n \o Eol

\* C3: a first CreateNewProject call in which every file-system step succeeds
\* returns true, has created exactly the folder (with its parents), src,
\* src/<name> and build, and has written exactly <name>.cide, CMakeLists.txt
\* and src/<name>/main.cc, the descriptor holding the six lines name,
\* projectCMakeDir, buildDir, buildTarget, runDir, runCmd for that name.
C3_NewProjectScaffold ==
  (NewMode /\ Returned /\ run = 1 /\ failed = {}) =>
    /\ ret = TRUE
    /\ {folderEdit, SrcPath, SrcSubPath, BuildPath} \subseteq dirs
    /\ dirs \ dirs0 \subseteq Prefixes(folderEdit) \cup {SrcPath, SrcSubPath, BuildPath}
    /\ FilePaths = {DescriptorPath, CMakeListsPath, MainPath}
    /\ [path |-> DescriptorPath, content |-> ExpectedDescriptor(nameEdit)] \in files

\* C4: in both modes, a call in which the creation of a directory or the
\* writing of a file failed has told the user, took no later file-system step
\* and returned false.
C4_FailureSurfaced ==
  (Returned /\ failed # {}) => (ret = FALSE /\ warnings # <<>> /\ afterFail = {})

\* The build folder is on another root than the CMakeLists.txt.
CrossRoot == ~NewMode /\ folderEdit[1] # existingCMakeFilePath[1]

AttachDescriptorPath ==
  FilePath(DirOf(existingCMakeFilePath), nameEdit \o <<".cide">>)

Holds(s, t) == \E k \in 0..(Len(s) - Len(t)) : SubSeq(s, k + 1, k + Len(t)) = t

C6_SecondRunIdempotent ==
  (NewMode /\ Returned /\ run >= 2 /\ prev.ret = TRUE /\ prev.failed = {}) =>
    /\ ret = TRUE
    /\ failed = {}
    /\ warnings = <<>>
    /\ log = prev.log
    /\ dirs = prev.dirs
    /\ files = prev.files

\* A second call has returned true after a first one that succeeded throughout.
C6_Witness ==
  /\ NewMode
  /\ Returned
  /\ run = 2
  /\ prev.ret = TRUE
  /\ prev.failed = {}
  /\ ret = TRUE
  /\ Len(log) = 3
  /\ {SrcSubPath, BuildPath} \subseteq prev.dirs

\* C9: whichever of mkdir src, cd src, mkdir <name>, cd <name> fail, a
\* CreateNewProject call writes no file other than <name>.cide, CMakeLists.txt
\* and src/<name>/main.cc.
C9_MainOnlyInSrcSubfolder ==
  NewMode => \A k \in 1..Len(log) : log[k].path \in {DescriptorPath, CMakeListsPath, MainPath}

====
